---- MODULE Spec2Model ----
(***************************************************************************)
(* Reconciliation of the Chase CSV ("bank ledger") with the Google Sheet   *)
(* ("target ledger") as done by chase.py: get_missing_transactions decides *)
(* what is new, determine_row_number_for_transaction decides where it      *)
(* goes, Classification.find labels it, and the batchUpdate applies the    *)
(* insert requests to the sheet.                                            *)
(*                                                                         *)
(* A transaction is the tuple <<date, amount, description>> of the source; *)
(* a date is a day ordinal, a description a sequence of characters.        *)
(***************************************************************************)
EXTENDS Integers, Sequences, FiniteSets, TLC

VARIABLES
    today,                     \* date.today()
    classifications,           \* Classification.parse() result
    chase_transactions,        \* main: chase_transactions
    sheet,                     \* the rows of the Google Sheet, row 1 first
    spreadsheet_transactions,  \* main: spreadsheet_transactions (snapshot of A2:C)
    transactions_to_add,       \* main: transactions_to_add
    warnings,                  \* the 'differing money' lines printed by this run
    transaction_index,         \* add_transactions_to_spreadsheet: loop index
    requests,                  \* add_transactions_to_spreadsheet: requests
    description,               \* Classification.find: argument
    found,                     \* Classification.find: return value
    run,                       \* how many times main() has been started
    previous,                  \* what the previous run of main() returned and printed
    pc                         \* position in main()

vars == << today, classifications, chase_transactions, sheet,
           spreadsheet_transactions, transactions_to_add, warnings,
           transaction_index, requests, description, found, run, previous, pc >>

-----------------------------------------------------------------------------
(* Bounds of the model *)

MaxBank == 3
MaxTarget == 2
WindowMaxTarget == 1
DupMaxBank == 4
MaxBatch == 2
MaxRules == 2
MaxPatternLen == 1
MaxDescriptionLen == 2

-----------------------------------------------------------------------------
(* Program constants *)

RANGE_TO_CHECK == 28

FULL == "full"
PREFIX == "prefix"

None == 0

-----------------------------------------------------------------------------
(* Generic helpers *)

Range(s) == { s[i] : i \in 1..Len(s) }

SeqsUpTo(S, n) == UNION { [1..k -> S] : k \in 0..n }

\* list.index(x): the first position holding x; None stands for ValueError
RECURSIVE IndexFrom(_, _, _)
IndexFrom(s, x, i) ==
    IF i > Len(s) THEN None
    ELSE IF s[i] = x THEN i
    ELSE IndexFrom(s, x, i + 1)

IndexSilentDefault(s, x) == IF IndexFrom(s, x, 1) = None THEN 1 ELSE IndexFrom(s, x, 1)

index(s, x) == IndexFrom(s, x, 1)

\* number of positions of s holding x
Count(s, x) == Cardinality({ i \in 1..Len(s) : s[i] = x })

-----------------------------------------------------------------------------
(* Classification.find *)

Whitespace == { " " }

\* str.lower() on one character
LowerChar(c) == IF c = "A" THEN "a" ELSE c

lower(s) == [ i \in 1..Len(s) |-> LowerChar(s[i]) ]

RECURSIVE lstrip(_)
lstrip(s) ==
    IF s = << >> THEN s
    ELSE IF Head(s) \in Whitespace THEN lstrip(Tail(s))
    ELSE s

RECURSIVE rstrip(_)
rstrip(s) ==
    IF s = << >> THEN s
    ELSE IF s[Len(s)] \in Whitespace THEN rstrip(SubSeq(s, 1, Len(s) - 1))
    ELSE s

strip(s) == rstrip(lstrip(s))

NormalizeNoStrip(s) == lower(s)

normalize_string(s) == strip(lower(s))

\* str.startswith
startswith(s, p) == Len(p) <= Len(s) /\ SubSeq(s, 1, Len(p)) = p

\* The positions of the rules of one type, in list order.  A position stands
\* for the Classification object found there.
OfType(cs, type) ==
    SelectSeq([ i \in 1..Len(cs) |-> i ], LAMBDA i : cs[i].type = type)

RECURSIVE FirstFull(_, _, _)
FirstFull(cs, candidates, normalized_description) ==
    IF candidates = << >> THEN None
    ELSE IF normalized_description = normalize_string(cs[Head(candidates)].match)
         THEN Head(candidates)
    ELSE FirstFull(cs, Tail(candidates), normalized_description)

RECURSIVE FirstPrefix(_, _, _)
FirstPrefix(cs, candidates, normalized_description) ==
    IF candidates = << >> THEN None
    ELSE IF startswith(normalized_description,
                       normalize_string(cs[Head(candidates)].match))
         THEN Head(candidates)
    ELSE FirstPrefix(cs, Tail(candidates), normalized_description)

FindListOrder(cs, d) ==
    LET hits == { i \in 1..Len(cs) :
                    \/ cs[i].type = FULL
                       /\ normalize_string(d) = normalize_string(cs[i].match)
                    \/ cs[i].type = PREFIX
                       /\ startswith(normalize_string(d), normalize_string(cs[i].match)) }
    IN  IF hits = {} THEN None ELSE CHOOSE i \in hits : \A j \in hits : i <= j

find(cs, d) ==
    LET normalized_description == normalize_string(d)
        full_match_classifications == OfType(cs, FULL)
        prefix_classifications == OfType(cs, PREFIX)
        full == FirstFull(cs, full_match_classifications, normalized_description)
    IN  IF full # None THEN full
        ELSE FirstPrefix(cs, prefix_classifications, normalized_description)

-----------------------------------------------------------------------------
(* get_missing_transactions *)

get_transaction_set_without_amount(transactions) ==
    { << transactions[i][1], transactions[i][3] >> : i \in 1..Len(transactions) }

SlimByDescriptionOnly(transaction, set_without_amount) ==
    \E p \in set_without_amount : p[2] = transaction[3]

is_transaction_in_non_amount_set(transaction, set_without_amount) ==
    << transaction[1], transaction[3] >> \in set_without_amount

RecentStrict(transactions, day) ==
    SelectSeq(transactions, LAMBDA t : day - t[1] < RANGE_TO_CHECK)

\* recent_transactions
recent_transactions(transactions, day) ==
    SelectSeq(transactions, LAMBDA t : day - t[1] <= RANGE_TO_CHECK)

InitialMissingKeepAll(recent, sheet_transactions) == recent

\* initial_missing_transactions
initial_missing_transactions(recent, sheet_transactions) ==
    LET spreadsheet_transactions_set == Range(sheet_transactions)
    IN  SelectSeq(recent, LAMBDA t : t \notin spreadsheet_transactions_set)

RECURSIVE MissingLoopKeepsWarned(_, _, _, _)
MissingLoopKeepsWarned(initial, slim_set, final, printed) ==
    IF initial = << >> THEN [ final |-> final, printed |-> printed ]
    ELSE IF is_transaction_in_non_amount_set(Head(initial), slim_set)
         THEN MissingLoopKeepsWarned(Tail(initial), slim_set,
                                     Append(final, Head(initial)),
                                     Append(printed, Head(initial)))
    ELSE MissingLoopKeepsWarned(Tail(initial), slim_set,
                                Append(final, Head(initial)), printed)

\* The loop over initial_missing_transactions: what is printed, what is kept.
RECURSIVE MissingLoop(_, _, _, _)
MissingLoop(initial, slim_set, final, printed) ==
    IF initial = << >> THEN [ final |-> final, printed |-> printed ]
    ELSE IF is_transaction_in_non_amount_set(Head(initial), slim_set)
         THEN MissingLoop(Tail(initial), slim_set, final, Append(printed, Head(initial)))
    ELSE MissingLoop(Tail(initial), slim_set, Append(final, Head(initial)), printed)

\* [final |-> the returned list, printed |-> the transactions warned about]
get_missing_transactions(chase, sheet_transactions, day) ==
    LET recent == recent_transactions(chase, day)
        initial == initial_missing_transactions(recent, sheet_transactions)
        spreadsheet_transactions_slim_set ==
            get_transaction_set_without_amount(sheet_transactions)
    IN  MissingLoop(initial, spreadsheet_transactions_slim_set, << >>, << >>)

-----------------------------------------------------------------------------
(* determine_row_number_for_transaction *)

\* The scan of spreadsheet_transactions: row_number is incremented before the
\* test, so a hit at 0-based position j leaves j + 1.
RECURSIVE ScanRows(_, _, _)
ScanRows(rows, slim_set, row_number) ==
    IF rows = << >> THEN row_number
    ELSE IF is_transaction_in_non_amount_set(Head(rows), slim_set) THEN row_number + 1
    ELSE ScanRows(Tail(rows), slim_set, row_number + 1)

\* Defined when the transaction is in chase (index raises ValueError otherwise).
determine_row_number_for_transaction(transaction, chase, sheet_transactions) ==
    LET position == index(chase, transaction)
        chase_transactions_slim_set ==
            get_transaction_set_without_amount(SubSeq(chase, position + 1, Len(chase)))
    IN  ScanRows(sheet_transactions, chase_transactions_slim_set, 0)

RowWithoutOffset(row_number, k) == row_number

\* row_number += transaction_index
RowWithOffset(row_number, k) == row_number + k

-----------------------------------------------------------------------------
(* The sheet *)

HeaderRow == [ header |-> TRUE, cells |-> << >> ]

TransactionRow(transaction) == [ header |-> FALSE, cells |-> transaction ]

SheetOf(transactions) ==
    << HeaderRow >> \o [ i \in 1..Len(transactions) |-> TransactionRow(transactions[i]) ]

\* range A2:C : every row below row 1
DataRows(rows) == SubSeq(rows, 2, Len(rows))

\* get_spreadsheet_transactions
get_spreadsheet_transactions(rows) ==
    [ i \in 1..Len(DataRows(rows)) |-> DataRows(rows)[i].cells ]

\* insertDimension at startIndex (0-based sheet row) followed by updateCells
InsertRow(rows, startIndex, row) ==
    SubSeq(rows, 1, startIndex) \o << row >> \o SubSeq(rows, startIndex + 1, Len(rows))

\* get_spreadsheet_requests_for_transaction
get_spreadsheet_requests_for_transaction(transaction, row_number, cs) ==
    [ rowIndex |-> row_number,
      transaction |-> transaction,
      classification |-> find(cs, transaction[3]) ]

\* batchUpdate: the requests applied in order
RECURSIVE batchUpdate(_, _)
batchUpdate(rows, reqs) ==
    IF reqs = << >> THEN rows
    ELSE batchUpdate(InsertRow(rows, Head(reqs).rowIndex,
                               TransactionRow(Head(reqs).transaction)),
                     Tail(reqs))

-----------------------------------------------------------------------------
(* The inputs of a run *)

\* A day on which every date of RecentDates is inside the four weeks checked
Today == 2 * RANGE_TO_CHECK + 2

RecentDates == { Today - 1, Today }

SameDay == { Today }

\* 29 and 28 days before Today, and 29 days after it
WindowDates == { Today - RANGE_TO_CHECK - 1, Today - RANGE_TO_CHECK,
                 Today + RANGE_TO_CHECK + 1 }

Amounts == { 1, 2 }

LedgerDescriptions == { << "a" >>, << "A" >> }

Transactions(dates) == dates \X Amounts \X LedgerDescriptions

\* entries.sort(key=lambda x: x[0], reverse=True): newest first
IsSortedDesc(transactions) ==
    \A i, j \in 1..Len(transactions) : i < j => transactions[i][1] >= transactions[j][1]

SortedLedgers(dates, n) ==
    { s \in SeqsUpTo(Transactions(dates), n) : IsSortedDesc(s) }

Alphabet == { "A", "a", " " }

Rules ==
    [ type : { FULL, PREFIX },
      match : SeqsUpTo(Alphabet, MaxPatternLen) \ { << >> } ]

SampleRules ==
    << [ type |-> PREFIX, match |-> << "a" >> ], [ type |-> FULL, match |-> << "A" >> ] >>

NoRun == [ final |-> << >>, printed |-> << >> ]

\* main() started with a CSV of at most maxBank entries over dates and a sheet
\* of at most maxTarget data rows
MainInit(dates, maxBank, maxTarget) ==
    /\ today = Today
    /\ classifications = SampleRules
    /\ chase_transactions \in SortedLedgers(dates, maxBank)
    /\ sheet \in { SheetOf(t) : t \in SeqsUpTo(Transactions(dates), maxTarget) }
    /\ spreadsheet_transactions = << >>
    /\ transactions_to_add = << >>
    /\ warnings = << >>
    /\ transaction_index = 0
    /\ requests = << >>
    /\ description = << >>
    /\ found = None
    /\ run = 1
    /\ previous = NoRun
    /\ pc = "read"

Init == MainInit(RecentDates, MaxBank, MaxTarget)

InitWindow == MainInit(WindowDates, MaxBank, WindowMaxTarget)

InitDup == MainInit(SameDay, DupMaxBank, MaxTarget)

InitConverge == MainInit(SameDay, MaxBank, MaxTarget)

\* add_transactions_to_spreadsheet called with any batch
InitAdd ==
    /\ today = Today
    /\ classifications = SampleRules
    /\ chase_transactions \in SortedLedgers(SameDay, MaxBank)
    /\ spreadsheet_transactions \in SeqsUpTo(Transactions(SameDay), WindowMaxTarget)
    /\ sheet = SheetOf(spreadsheet_transactions)
    /\ transactions_to_add \in SeqsUpTo(Transactions(SameDay), MaxBatch)
    /\ warnings = << >>
    /\ transaction_index = 0
    /\ requests = << >>
    /\ description = << >>
    /\ found = None
    /\ run = 1
    /\ previous = NoRun
    /\ pc = "add"

\* Classification.find called with any rule list and description
InitFind ==
    /\ today = Today
    /\ classifications \in SeqsUpTo(Rules, MaxRules)
    /\ description \in SeqsUpTo(Alphabet, MaxDescriptionLen)
    /\ chase_transactions = << >>
    /\ sheet = SheetOf(<< >>)
    /\ spreadsheet_transactions = << >>
    /\ transactions_to_add = << >>
    /\ warnings = << >>
    /\ transaction_index = 0
    /\ requests = << >>
    /\ found = None
    /\ run = 1
    /\ previous = NoRun
    /\ pc = "find"

-----------------------------------------------------------------------------
(* The steps of main() *)

GetSpreadsheetTransactions ==
    /\ pc = "read"
    /\ spreadsheet_transactions' = get_spreadsheet_transactions(sheet)
    /\ pc' = "reconcile"
    /\ UNCHANGED << today, classifications, chase_transactions, sheet,
                    transactions_to_add, warnings, transaction_index, requests,
                    description, found, run, previous >>

GetMissingTransactions ==
    /\ pc = "reconcile"
    /\ LET r == get_missing_transactions(chase_transactions, spreadsheet_transactions, today)
       IN  /\ transactions_to_add' = r.final
           /\ warnings' = r.printed
           /\ pc' = IF r.final = << >> THEN "done" ELSE "add"
    /\ transaction_index' = 0
    /\ requests' = << >>
    /\ UNCHANGED << today, classifications, chase_transactions, sheet,
                    spreadsheet_transactions, description, found, run, previous >>

\* one pass of the loop of add_transactions_to_spreadsheet
DetermineRow ==
    /\ pc = "add"
    /\ transaction_index < Len(transactions_to_add)
    /\ LET transaction == transactions_to_add[transaction_index + 1]
           row_number == determine_row_number_for_transaction(
                             transaction, chase_transactions, spreadsheet_transactions)
       IN  /\ index(chase_transactions, transaction) # None
           /\ requests' = Append(requests,
                  get_spreadsheet_requests_for_transaction(
                      transaction, RowWithOffset(row_number, transaction_index),
                      classifications))
    /\ transaction_index' = transaction_index + 1
    /\ UNCHANGED << today, classifications, chase_transactions, sheet,
                    spreadsheet_transactions, transactions_to_add, warnings,
                    description, found, run, previous, pc >>

\* chase_transactions.index(transaction) raises ValueError; nothing catches it
RaiseValueError ==
    /\ pc = "add"
    /\ transaction_index < Len(transactions_to_add)
    /\ index(chase_transactions, transactions_to_add[transaction_index + 1]) = None
    /\ pc' = "fatal"
    /\ UNCHANGED << today, classifications, chase_transactions, sheet,
                    spreadsheet_transactions, transactions_to_add, warnings,
                    transaction_index, requests, description, found, run, previous >>

\* service.spreadsheets().batchUpdate(...).execute(), after the loop
BatchUpdate ==
    /\ pc = "add"
    /\ transaction_index = Len(transactions_to_add)
    /\ sheet' = batchUpdate(sheet, requests)
    /\ pc' = "done"
    /\ UNCHANGED << today, classifications, chase_transactions,
                    spreadsheet_transactions, transactions_to_add, warnings,
                    transaction_index, requests, description, found, run, previous >>

\* The batch reaches the sheet's data rows, each transaction at some row of them
InsertAtSomeRow ==
    /\ pc = "add"
    /\ run = 1
    /\ transaction_index < Len(transactions_to_add)
    /\ \E row_number \in 1..Len(sheet) :
          sheet' = InsertRow(sheet, row_number,
                             TransactionRow(transactions_to_add[transaction_index + 1]))
    /\ transaction_index' = transaction_index + 1
    /\ UNCHANGED << today, classifications, chase_transactions,
                    spreadsheet_transactions, transactions_to_add, warnings,
                    requests, description, found, run, previous, pc >>

\* main() is started again with the same CSV on the same day
RunAgain ==
    /\ run = 1
    /\ \/ pc = "done"
       \/ pc = "add" /\ transaction_index = Len(transactions_to_add)
    /\ run' = 2
    /\ previous' = [ final |-> transactions_to_add, printed |-> warnings ]
    /\ pc' = "read"
    /\ UNCHANGED << today, classifications, chase_transactions, sheet,
                    spreadsheet_transactions, transactions_to_add, warnings,
                    transaction_index, requests, description, found >>

Find ==
    /\ pc = "find"
    /\ found' = find(classifications, description)
    /\ pc' = "found"
    /\ UNCHANGED << today, classifications, chase_transactions, sheet,
                    spreadsheet_transactions, transactions_to_add, warnings,
                    transaction_index, requests, description, run, previous >>

Next ==
    \/ GetSpreadsheetTransactions
    \/ GetMissingTransactions
    \/ DetermineRow
    \/ BatchUpdate

NextAdd ==
    \/ DetermineRow
    \/ RaiseValueError
    \/ BatchUpdate

NextConverge ==
    \/ GetSpreadsheetTransactions
    \/ GetMissingTransactions
    \/ InsertAtSomeRow
    \/ RunAgain

NextFind == Find

Spec == Init /\ [][Next]_vars

SpecWindow == InitWindow /\ [][Next]_vars

SpecDup == InitDup /\ [][Next]_vars

SpecAdd == InitAdd /\ [][NextAdd]_vars

SpecConverge == InitConverge /\ [][NextConverge]_vars

SpecFind == InitFind /\ [][NextFind]_vars

-----------------------------------------------------------------------------
(* Vocabulary of the properties *)

Reconciled == pc \in { "add", "done" }

SameSlim(t, u) == t[1] = u[1] /\ t[3] = u[3]

InTarget(t) == \E j \in 1..Len(spreadsheet_transactions) : spreadsheet_transactions[j] = t

SlimInTarget(t) ==
    \E j \in 1..Len(spreadsheet_transactions) : SameSlim(spreadsheet_transactions[j], t)

Requested(t) == \E k \in 1..Len(requests) : requests[k].transaction = t

\* the transactions of the sheet's data rows are newest first
DataSortedDesc(rows) ==
    \A i, j \in 2..Len(rows) :
        (i < j /\ ~rows[i].header /\ ~rows[j].header)
            => rows[i].cells[1] >= rows[j].cells[1]

\* the row determine_row_number_for_transaction returned for the k-th request
RawRow(k) == requests[k].rowIndex - (k - 1)

FirstPosition(t) ==
    CHOOSE i \in 1..Len(chase_transactions) :
        /\ chase_transactions[i] = t
        /\ \A m \in 1..(i - 1) : chase_transactions[m] # t

\* 0-based index of the first data row that is, by date and description, a
\* bank transaction after position i; the number of data rows when there is none
FirstOlderIndex(i) ==
    LET hits == { j \in 1..Len(spreadsheet_transactions) :
                    \E m \in (i + 1)..Len(chase_transactions) :
                        SameSlim(spreadsheet_transactions[j], chase_transactions[m]) }
    IN  IF hits = {} THEN Len(spreadsheet_transactions)
        ELSE (CHOOSE j \in hits : \A h \in hits : j <= h) - 1

-----------------------------------------------------------------------------
(* C1 *)

\* C1: when the bank ledger and the sheet's data rows are newest first, the
\* data rows are still newest first after the batch update.
C1_OrderPreserved ==
    (pc = "done" /\ requests # << >> /\ IsSortedDesc(chase_transactions)
        /\ IsSortedDesc(spreadsheet_transactions))
    => DataSortedDesc(sheet)

(* C2 *)

\* C2: the row returned for a transaction at bank position i is the 0-based
\* index of the first data row matching a bank transaction after i, or the
\* number of data rows.
C2_RawRowIsFirstOlderIndex ==
    \A k \in 1..Len(requests) :
        RawRow(k) = FirstOlderIndex(FirstPosition(transactions_to_add[k]))

(* C3 *)

\* C3: the k-th transaction of the batch (k counted from 0) is requested at
\* its raw row plus k, all raw rows being computed from the same snapshot.
C3_BatchOffset ==
    /\ Len(requests) <= Len(transactions_to_add)
    /\ \A k \in 1..Len(requests) :
          /\ requests[k].transaction = transactions_to_add[k]
          /\ requests[k].rowIndex =
                determine_row_number_for_transaction(
                    transactions_to_add[k], chase_transactions, spreadsheet_transactions)
                + (k - 1)

\* two transactions with the same raw row get consecutive rows
C3_Witness ==
    /\ Len(requests) = 2
    /\ determine_row_number_for_transaction(
           transactions_to_add[1], chase_transactions, spreadsheet_transactions)
       = determine_row_number_for_transaction(
           transactions_to_add[2], chase_transactions, spreadsheet_transactions)
    /\ spreadsheet_transactions # << >>
    /\ requests[2].rowIndex = requests[1].rowIndex + 1

(* C4 *)

\* C4: missing is the bank ledger restricted, in its order, to the in-window
\* transactions that are neither in the target nor an amount discrepancy.
C4_MissingExactly ==
    Reconciled =>
        /\ transactions_to_add =
              SelectSeq(chase_transactions,
                        LAMBDA t : /\ today - t[1] <= RANGE_TO_CHECK
                                   /\ ~InTarget(t)
                                   /\ ~SlimInTarget(t))
        /\ \A k \in 1..Len(transactions_to_add) : ~InTarget(transactions_to_add[k])
        /\ IsSortedDesc(transactions_to_add)

\* a bank ledger holding an entry that is too old, an in-window one recorded
\* in the target and a new one
C4_Witness ==
    /\ pc = "done"
    /\ Len(transactions_to_add) = 1
    /\ \E i \in 1..Len(chase_transactions) :
          today - chase_transactions[i][1] > RANGE_TO_CHECK
    /\ \E i \in 1..Len(chase_transactions) :
          /\ today - chase_transactions[i][1] <= RANGE_TO_CHECK
          /\ SlimInTarget(chase_transactions[i])

(* C5 *)

Discrepancy(t) ==
    \E j \in 1..Len(spreadsheet_transactions) :
        /\ SameSlim(spreadsheet_transactions[j], t)
        /\ spreadsheet_transactions[j][2] # t[2]

InWindowOccurrences(t) ==
    Cardinality({ i \in 1..Len(chase_transactions) :
                    /\ chase_transactions[i] = t
                    /\ today - t[1] <= RANGE_TO_CHECK })

\* C5 as stated: an in-window bank transaction with a target row of the same
\* date and description and another amount is warned about once per
\* occurrence and is neither missing nor inserted, whatever else the target holds.
C5_WarnedWheneverAmountDiffers ==
    Reconciled =>
        \A i \in 1..Len(chase_transactions) :
            LET t == chase_transactions[i]
            IN  (today - t[1] <= RANGE_TO_CHECK /\ Discrepancy(t))
                => /\ Count(warnings, t) = InWindowOccurrences(t)
                   /\ Count(transactions_to_add, t) = 0
                   /\ ~Requested(t)

\* C5 amended: the warning is printed when the full triple is not in the
\* target; a transaction whose full triple is there is never warned about.
C5_WarnedUnlessHardMatch ==
    Reconciled =>
        \A i \in 1..Len(chase_transactions) :
            LET t == chase_transactions[i]
            IN  /\ (today - t[1] <= RANGE_TO_CHECK /\ Discrepancy(t) /\ ~InTarget(t))
                   => /\ Count(warnings, t) = InWindowOccurrences(t)
                      /\ Count(transactions_to_add, t) = 0
                      /\ ~Requested(t)
                /\ InTarget(t)
                   => /\ Count(warnings, t) = 0
                      /\ Count(transactions_to_add, t) = 0
                      /\ ~Requested(t)

\* a run that warned about an amount discrepancy and inserted another entry
C5_Witness ==
    /\ pc = "done"
    /\ requests # << >>
    /\ \E i \in 1..Len(chase_transactions) :
          /\ Discrepancy(chase_transactions[i])
          /\ ~InTarget(chase_transactions[i])
          /\ Count(warnings, chase_transactions[i]) = 1

(* C6 *)

\* C6 as stated: whatever is missing or warned about is dated within
\* RANGE_TO_CHECK days of today, before or after.
C6_WindowBothSides ==
    Reconciled =>
        \A t \in Range(transactions_to_add) \cup Range(warnings) :
            /\ today - t[1] <= RANGE_TO_CHECK
            /\ t[1] - today <= RANGE_TO_CHECK

\* C6 amended: nothing dated more than RANGE_TO_CHECK days before today is
\* missing, warned about or inserted; a transaction dated exactly
\* RANGE_TO_CHECK days before today, or any day after it, is a candidate.
C6_WindowOlderSideOnly ==
    Reconciled =>
        /\ \A t \in Range(transactions_to_add) \cup Range(warnings) :
              today - t[1] <= RANGE_TO_CHECK
        /\ \A k \in 1..Len(requests) :
              today - requests[k].transaction[1] <= RANGE_TO_CHECK
        /\ \A i \in 1..Len(chase_transactions) :
              LET t == chase_transactions[i]
              IN  (~SlimInTarget(t) /\ (t[1] = today - RANGE_TO_CHECK \/ t[1] > today))
                  => Count(transactions_to_add, t) >= 1

\* the entry dated 28 days ago is inserted, the one dated 29 days ago is not
C6_Witness ==
    /\ pc = "done"
    /\ \E k \in 1..Len(requests) :
          requests[k].transaction[1] = today - RANGE_TO_CHECK
    /\ \E i \in 1..Len(chase_transactions) :
          /\ chase_transactions[i][1] = today - RANGE_TO_CHECK - 1
          /\ ~SlimInTarget(chase_transactions[i])

(* C7 *)

FullHits ==
    { i \in 1..Len(classifications) :
        /\ classifications[i].type = FULL
        /\ normalize_string(classifications[i].match) = normalize_string(description) }

PrefixHits ==
    { i \in 1..Len(classifications) :
        /\ classifications[i].type = PREFIX
        /\ startswith(normalize_string(description),
                      normalize_string(classifications[i].match)) }

Least(S) == CHOOSE i \in S : \A j \in S : i <= j

\* C7: find returns the first 'full' rule equal to the description after
\* lower-casing and trimming both, else the first 'prefix' rule that is a
\* prefix of it, else nothing; and it leaves the rule list as it was.
C7_FindFullBeforePrefix ==
    /\ [](pc = "found" =>
            found = IF FullHits # {} THEN Least(FullHits)
                    ELSE IF PrefixHits # {} THEN Least(PrefixHits)
                    ELSE None)
    /\ [][classifications' = classifications]_vars

\* a 'full' rule was returned although a matching 'prefix' rule stands before it
C7_Witness ==
    /\ pc = "found"
    /\ found # None
    /\ classifications[found].type = FULL
    /\ \E i \in PrefixHits : i < found
    /\ classifications[found].match # description

(* C8 *)

InBank(t) == \E i \in 1..Len(chase_transactions) : chase_transactions[i] = t

\* C8: a row is computed only for a transaction of the bank ledger; a
\* transaction that is not in it ends the run in ValueError, and a run that
\* ended so has written nothing: the sheet changes only after every row of
\* the batch has been computed.
C8_FatalBeforeAnyWrite ==
    /\ \A k \in 1..Len(requests) : InBank(transactions_to_add[k])
    /\ pc = "done" => \A k \in 1..Len(transactions_to_add) : InBank(transactions_to_add[k])
    /\ pc = "fatal" =>
          /\ ~InBank(transactions_to_add[transaction_index + 1])
          /\ sheet = SheetOf(spreadsheet_transactions)
    /\ sheet # SheetOf(spreadsheet_transactions) =>
          /\ pc = "done"
          /\ Len(requests) = Len(transactions_to_add)

\* the second transaction of the batch is unknown: one row computed, nothing written
C8_Witness ==
    /\ pc = "fatal"
    /\ Len(requests) = 1
    /\ spreadsheet_transactions # << >>

(* C9 *)

C10_RowsIncreaseInBatchOrder ==
    \A k, l \in 1..Len(requests) :
        k < l => /\ RawRow(k) <= RawRow(l)
                 /\ requests[k].rowIndex < requests[l].rowIndex

====
